---------------------------- MODULE Spec2Model ----------------------------
(***************************************************************************)
(* Model of the MindMate mood dashboards.                                  *)
(*   mindmate_front.py     login, JSON-file persistence, remote analysis   *)
(*                         with local fallback (mock_analyze_mood)         *)
(*   mindmate_frontend.py  login-free, in-memory only (analyze_mood)       *)
(* Text is a sequence of one-character strings, so that Python's           *)
(* "kw in text" is substring search and str.lower() is a real conversion.  *)
(***************************************************************************)
EXTENDS Integers, Sequences, FiniteSets, TLC

(***************************************************************************)
(* Bounds of the model.                                                    *)
(***************************************************************************)
\* number of text fragments concatenated into a mood text (classifier runs)
MaxFrags == 1
\* largest PYTHONHASHSEED-like secret a process may start with
MaxSeed == 1
\* largest wall-clock reading (naive local time; it can repeat or step back)
MaxClock == 2
\* longest entry list a session or the data file holds
MaxEntries == 2

\* user names, as typed after strip(); NoUser stands for current_user = None
Users == { <<"a","n","n">>, <<"b","o","b">> }
NoUser == <<>>
Seeds == 0..MaxSeed
Clock == 1..MaxClock

(***************************************************************************)
(* Characters and strings.                                                 *)
(***************************************************************************)
LowerLetters ==
  <<"a","b","c","d","e","f","g","h","i","j","k","l","m","n","o","p","q","r","s","t","u","v","w","x","y","z">>
UpperLetters ==
  <<"A","B","C","D","E","F","G","H","I","J","K","L","M","N","O","P","Q","R","S","T","U","V","W","X","Y","Z">>
OtherChars ==
  <<" ","'">>

Alphabet == LowerLetters \o UpperLetters \o OtherChars

\* code point stand-in: the position of the character in Alphabet
Code(c) == CHOOSE i \in 1..Len(Alphabet) : Alphabet[i] = c

\* str.lower() on one character
LowerChar(c) ==
  IF \E i \in 1..Len(UpperLetters) : UpperLetters[i] = c
  THEN LowerLetters[CHOOSE i \in 1..Len(UpperLetters) : UpperLetters[i] = c]
  ELSE c

\* str.lower()
Lower(s) == [i \in 1..Len(s) |-> LowerChar(s[i])]

\* Python's  kw in text  (substring containment)
IsIn(kw, text) ==
  \E i \in 0..(Len(text) - Len(kw)) : SubSeq(text, i + 1, i + Len(kw)) = kw

\* any(word in text for word in words)
AnyIn(words, text) == \E i \in 1..Len(words) : IsIn(words[i], text)

\* str.strip(): drop leading and trailing whitespace
RECURSIVE LStrip(_)
LStrip(s) == IF s # <<>> /\ Head(s) = " " THEN LStrip(Tail(s)) ELSE s
RECURSIVE RStrip(_)
RStrip(s) ==
  IF s # <<>> /\ s[Len(s)] = " " THEN RStrip(SubSeq(s, 1, Len(s) - 1)) ELSE s
Strip(s) == RStrip(LStrip(s))

\* hash(str): keyed by the process's hash secret, 0 for the empty string
RECURSIVE HashFrom(_, _)
HashFrom(h, s) ==
  IF s = <<>> THEN h ELSE HashFrom((h * 33 + Code(Head(s))) % 65536, Tail(s))
PyHash(s, seed) == IF s = <<>> THEN 0 ELSE HashFrom(5381 + 7919 * seed, s)

(***************************************************************************)
(* Static tables of mindmate_front.py                                      *)
(***************************************************************************)
\* insertion order of the trigger_keywords dict
trigger_order ==
  << "political", "work", "health", "relationship", "financial",
     "academic", "family", "social", "environmental" >>

Categories == { trigger_order[i] : i \in 1..Len(trigger_order) }

trigger_keywords ==
  "political" :>
     << <<"e","l","e","c","t","i","o","n">>,
        <<"p","o","l","i","t","i","c","s">>,
        <<"g","o","v","e","r","n","m","e","n","t">>,
        <<"v","o","t","e">>,
        <<"p","o","l","i","c","y">>,
        <<"p","o","l","i","t","i","c","i","a","n">> >> @@
  "work" :>
     << <<"j","o","b">>,
        <<"b","o","s","s">>,
        <<"d","e","a","d","l","i","n","e">>,
        <<"w","o","r","k">>,
        <<"c","a","r","e","e","r">>,
        <<"o","f","f","i","c","e">>,
        <<"c","o","l","l","e","a","g","u","e">> >> @@
  "health" :>
     << <<"s","i","c","k">>,
        <<"p","a","i","n">>,
        <<"a","n","x","i","e","t","y">>,
        <<"d","e","p","r","e","s","s","i","o","n">>,
        <<"m","e","n","t","a","l">>,
        <<"p","h","y","s","i","c","a","l">> >> @@
  "relationship" :>
     << <<"p","a","r","t","n","e","r">>,
        <<"b","r","e","a","k","u","p">>,
        <<"m","a","r","r","i","a","g","e">>,
        <<"d","a","t","i","n","g">>,
        <<"s","p","o","u","s","e">>,
        <<"d","i","v","o","r","c","e">> >> @@
  "financial" :>
     << <<"m","o","n","e","y">>,
        <<"d","e","b","t">>,
        <<"b","i","l","l","s">>,
        <<"s","a","l","a","r","y">>,
        <<"b","u","d","g","e","t">>,
        <<"e","x","p","e","n","s","i","v","e">> >> @@
  "academic" :>
     << <<"e","x","a","m">>,
        <<"s","c","h","o","o","l">>,
        <<"s","t","u","d","y">>,
        <<"g","r","a","d","e">>,
        <<"h","o","m","e","w","o","r","k">>,
        <<"t","e","s","t">> >> @@
  "family" :>
     << <<"f","a","m","i","l","y">>,
        <<"p","a","r","e","n","t">>,
        <<"m","o","t","h","e","r">>,
        <<"f","a","t","h","e","r">>,
        <<"s","i","b","l","i","n","g">>,
        <<"c","h","i","l","d">> >> @@
  "social" :>
     << <<"f","r","i","e","n","d">>,
        <<"l","o","n","e","l","y">>,
        <<"i","s","o","l","a","t","e","d">>,
        <<"p","e","o","p","l","e">>,
        <<"c","o","m","m","u","n","i","t","y">> >> @@
  "environmental" :>
     << <<"c","l","i","m","a","t","e">>,
        <<"e","n","v","i","r","o","n","m","e","n","t">>,
        <<"p","o","l","l","u","t","i","o","n">>,
        <<"n","a","t","u","r","e">>,
        <<"w","e","a","t","h","e","r">> >>

high_words ==
  << <<"c","r","i","s","i","s">>,
     <<"h","o","p","e","l","e","s","s">>,
     <<"u","n","b","e","a","r","a","b","l","e">>,
     <<"s","u","i","c","i","d","e">>,
     <<"k","i","l","l">>,
     <<"c","a","n","'","t"," ","t","a","k","e">>,
     <<"o","v","e","r","w","h","e","l","m","i","n","g">> >>

\* the medium list without its first word
medium_wordsNoStressed ==
  << <<"a","n","x","i","o","u","s">>,
     <<"w","o","r","r","i","e","d">>,
     <<"u","p","s","e","t">>,
     <<"s","t","r","u","g","g","l","i","n","g">>,
     <<"d","i","f","f","i","c","u","l","t">> >>

medium_words ==
  << <<"s","t","r","e","s","s","e","d">>,
     <<"a","n","x","i","o","u","s">>,
     <<"w","o","r","r","i","e","d">>,
     <<"u","p","s","e","t">>,
     <<"s","t","r","u","g","g","l","i","n","g">>,
     <<"d","i","f","f","i","c","u","l","t">> >>

Severities == {"low", "medium", "high"}

\* Python's None as an argument value
None == "None"

\* what a call returns when it returns None instead of a dict
NoneResult == [none |-> TRUE]
\* what a call yields when an exception leaves it
Raised == [raised |-> TRUE]

IsDict(r) == "none" \notin DOMAIN r /\ "raised" \notin DOMAIN r

(***************************************************************************)
(* mock_analyze_mood (mindmate_front.py)                                   *)
(***************************************************************************)
\* mood_lower = mood_text.lower()
MoodLower(mood_text) == Lower(mood_text)

\* sum(1 for kw in keywords if kw in mood_lower)
RECURSIVE KeywordScore(_, _)
KeywordScore(keywords, mood_lower) ==
  IF keywords = <<>> THEN 0
  ELSE (IF IsIn(Head(keywords), mood_lower) THEN 1 ELSE 0)
       + KeywordScore(Tail(keywords), mood_lower)

\* as TriggerScores, but matching against the text as typed
TriggerScoresCaseSensitive(mood_text) ==
  [t \in Categories |-> KeywordScore(trigger_keywords[t], mood_text)]

\* the loop that fills trigger_scores, one key per trigger_keywords item
TriggerScores(mood_text) ==
  [t \in Categories |-> KeywordScore(trigger_keywords[t], MoodLower(mood_text))]

\* as MaxKey, but a later item of equal score replaces the earlier one
RECURSIVE MaxKeyLast(_, _, _)
MaxKeyLast(order, scores, best) ==
  IF order = <<>> THEN best
  ELSE MaxKeyLast(Tail(order), scores,
                  IF scores[Head(order)] >= scores[best] THEN Head(order) ELSE best)

\* max(items, key=score): the first item, in iteration order, of largest score
RECURSIVE MaxKey(_, _, _)
MaxKey(order, scores, best) ==
  IF order = <<>> THEN best
  ELSE MaxKey(Tail(order), scores,
              IF scores[Head(order)] > scores[best] THEN Head(order) ELSE best)

\* as PrimaryTrigger, but without the any(...) test
PrimaryTriggerNoOther(scores) ==
  MaxKey(Tail(trigger_order), scores, Head(trigger_order))

\* max(...)[0] if any(trigger_scores.values()) else "other"
PrimaryTrigger(scores) ==
  IF \E t \in DOMAIN scores : scores[t] # 0
  THEN MaxKey(Tail(trigger_order), scores, Head(trigger_order))
  ELSE "other"

\* as DetectSeverity, but scanning medium_words before high_words
DetectSeverityMediumFirst(severity, mood_text) ==
  IF severity # None /\ severity # ""
  THEN severity
  ELSE IF AnyIn(medium_words, MoodLower(mood_text)) THEN "medium"
       ELSE IF AnyIn(high_words, MoodLower(mood_text)) THEN "high"
       ELSE "low"

\* as DetectSeverity, but with the default of mindmate_frontend.py
DetectSeverityDefaultMedium(severity, mood_text) ==
  IF severity # None /\ severity # ""
  THEN severity
  ELSE IF AnyIn(high_words, MoodLower(mood_text)) THEN "high"
       ELSE "medium"

\* as DetectSeverity, but the keywords win over the caller's value
DetectSeverityNoOverride(severity, mood_text) ==
  IF AnyIn(high_words, MoodLower(mood_text)) THEN "high"
  ELSE IF AnyIn(medium_words, MoodLower(mood_text)) THEN "medium"
  ELSE IF severity # None /\ severity # "" THEN severity
  ELSE "low"

\* as DetectSeverity, but without the final else: severity stays None
DetectSeverityNoDefault(severity, mood_text) ==
  IF severity # None /\ severity # ""
  THEN severity
  ELSE IF AnyIn(high_words, MoodLower(mood_text)) THEN "high"
       ELSE IF AnyIn(medium_words, MoodLower(mood_text)) THEN "medium"
       ELSE severity

\* the "if not severity:" block
DetectSeverity(severity, mood_text) ==
  IF severity # None /\ severity # ""
  THEN severity
  ELSE IF AnyIn(high_words, MoodLower(mood_text)) THEN "high"
       ELSE IF AnyIn(medium_words, MoodLower(mood_text)) THEN "medium"
       ELSE "low"

\* first element of insight_parts
BaseInsight(severity) ==
  IF severity = "high"
  THEN "Your entry indicates significant emotional distress that warrants immediate attention."
  ELSE IF severity = "medium"
  THEN "Your mood reflects notable challenges that could benefit from proactive support."
  ELSE "Your emotional state appears stable with manageable concerns."

\* the k-th sentence of the table text of (trigger, severity)
TableSentence(t, s, k) == <<"insight", t, s, k>>

\* the trigger_insights table: per (trigger, severity) a text of two
\* sentences with a space between them; family/high is one sentence
trigger_insights ==
  [t \in Categories \cup {"other"} |->
     [s \in Severities |->
        IF t = "family" /\ s = "high"
        THEN <<TableSentence(t, s, 1)>>
        ELSE <<TableSentence(t, s, 1), " ", TableSentence(t, s, 2)>>]]

\* last element of insight_parts
ClosingInsight(severity) ==
  IF severity = "high"
  THEN "Remember: You deserve support and things can improve with proper help."
  ELSE IF severity = "medium"
  THEN "Taking proactive steps now can prevent escalation and improve your situation."
  ELSE "Maintaining this self-awareness and continuing healthy habits will serve you well."

\* insight_parts, before " ".join: each part a text, that is, a sequence of
\* sentences and of the spaces between them
InsightParts(primary_trigger, severity) ==
  << <<BaseInsight(severity)>> >>
  \o (IF primary_trigger \in DOMAIN trigger_insights
      THEN <<trigger_insights[primary_trigger][severity]>> ELSE <<>>)
  \o << <<ClosingInsight(severity)>> >>

\* "".join(parts): the parts one after the other with nothing between them
RECURSIVE StrJoinTight(_, _)
StrJoinTight(sep, parts) ==
  IF parts = <<>> THEN <<>>
  ELSE Head(parts) \o StrJoinTight(sep, Tail(parts))

\* sep.join(parts)
RECURSIVE StrJoin(_, _)
StrJoin(sep, parts) ==
  IF parts = <<>> THEN <<>>
  ELSE IF Len(parts) = 1 THEN Head(parts)
  ELSE Head(parts) \o <<sep>> \o StrJoin(sep, Tail(parts))

Advice(severity) ==
  IF severity = "high" THEN "IMMEDIATE SUPPORT NEEDED"
  ELSE IF severity = "medium" THEN "STRESS MANAGEMENT"
  ELSE "MAINTAIN YOUR BALANCE"

music_options(severity) ==
  IF severity = "high"
  THEN << "Weightless - Marconi Union (scientifically proven calming)",
          "Spiegel im Spiegel - Arvo Part (deeply peaceful)",
          "Clair de Lune - Debussy (gentle, soothing)" >>
  ELSE IF severity = "medium"
  THEN << "Clair de Lune - Debussy (calming classical)",
          "Pure Shores - All Saints (relaxing)",
          "Nocturne in E-flat Major - Chopin (peaceful piano)" >>
  ELSE << "Here Comes The Sun - The Beatles (uplifting)",
          "Three Little Birds - Bob Marley (positive vibes)",
          "Good Vibrations - The Beach Boys (mood-boosting)" >>

\* music_options[hash(mood_text) % len(music_options)]
Music(mood_text, severity, seed) ==
  music_options(severity)[(PyHash(mood_text, seed) % Len(music_options(severity))) + 1]

\* hashlib.md5(f"{user_id}{now}".encode()).hexdigest()[:12]; the digest is
\* taken as collision-free, so equal ids come only from equal arguments
RecordId(user_id, now) == <<"md5", user_id, now>>

\* mock_analyze_mood(user_id, mood_text, severity) in a process whose hash
\* secret is seed, with the wall clock reading now
mock_analyze_mood(user_id, mood_text, severity, seed, now) ==
  LET trigger_scores == TriggerScores(mood_text)
      primary_trigger == PrimaryTrigger(trigger_scores)
      sev == DetectSeverity(severity, mood_text)
  IN  IF primary_trigger \in DOMAIN trigger_insights /\ sev \notin Severities
      THEN Raised  \* KeyError in trigger_insights[primary_trigger][severity]
      ELSE [ success |-> TRUE,
             record_id |-> RecordId(user_id, now),
             user_id |-> user_id,
             mood |-> mood_text,
             primary_trigger |-> primary_trigger,
             trigger_scores |-> trigger_scores,
             severity |-> sev,
             advice |-> Advice(sev),
             music_track |-> Music(mood_text, sev, seed),
             deep_insight |-> StrJoin(" ", InsightParts(primary_trigger, sev)),
             timestamp |-> now ]

(***************************************************************************)
(* analyze_mood (mindmate_frontend.py); weights are in hundredths          *)
(***************************************************************************)
fe_rules ==
  << [trigger |-> "political", weight |-> 80,
      words |-> << <<"e","l","e","c","t","i","o","n">>, <<"g","o","v","e","r","n","m","e","n","t">>, <<"p","o","l","i","t","i","c","s">> >>],
     [trigger |-> "social", weight |-> 70,
      words |-> << <<"p","e","o","p","l","e">>, <<"s","o","c","i","e","t","y">>, <<"c","o","m","m","u","n","i","t","y">> >>],
     [trigger |-> "environmental", weight |-> 75,
      words |-> << <<"c","l","i","m","a","t","e">>, <<"e","n","v","i","r","o","n","m","e","n","t">>, <<"p","o","l","l","u","t","i","o","n">> >>],
     [trigger |-> "work", weight |-> 80,
      words |-> << <<"w","o","r","k">>, <<"j","o","b">>, <<"b","o","s","s">>, <<"c","a","r","e","e","r">> >>],
     [trigger |-> "relationship", weight |-> 85,
      words |-> << <<"r","e","l","a","t","i","o","n","s","h","i","p">>, <<"p","a","r","t","n","e","r">>, <<"b","r","e","a","k","u","p">> >>],
     [trigger |-> "health", weight |-> 80,
      words |-> << <<"s","i","c","k">>, <<"p","a","i","n">>, <<"h","e","a","l","t","h">> >>],
     [trigger |-> "financial", weight |-> 75,
      words |-> << <<"m","o","n","e","y">>, <<"d","e","b","t">>, <<"b","i","l","l","s">> >>] >>

stress_words ==
  << <<"o","v","e","r","w","h","e","l","m","e","d">>,
     <<"a","n","x","i","o","u","s">>,
     <<"d","e","p","r","e","s","s","e","d">>,
     <<"c","r","i","s","i","s">>,
     <<"h","e","l","p">>,
     <<"c","a","n","'","t">> >>

\* the if-statements that fill trigger_scores: a key only for a matched rule
FeTriggerScores(mood_text) ==
  LET text_lower == Lower(mood_text)
      hit == { i \in 1..Len(fe_rules) : AnyIn(fe_rules[i].words, text_lower) }
  IN  [t \in { fe_rules[i].trigger : i \in hit } |->
         fe_rules[CHOOSE i \in hit : fe_rules[i].trigger = t].weight]

\* insertion order of the keys of trigger_scores: the order of the rules
FeKeyOrder(scores) ==
  LET all == [i \in 1..Len(fe_rules) |-> fe_rules[i].trigger]
      Present(t) == t \in DOMAIN scores
  IN  SelectSeq(all, Present)

\* max(trigger_scores, key=trigger_scores.get) if trigger_scores else "other"
FePrimaryTrigger(scores) ==
  IF DOMAIN scores # {}
  THEN MaxKey(Tail(FeKeyOrder(scores)), scores, Head(FeKeyOrder(scores)))
  ELSE "other"

\* the "if not severity:" block
FeDetectSeverity(severity, mood_text) ==
  IF severity # None /\ severity # ""
  THEN severity
  ELSE IF AnyIn(stress_words, Lower(mood_text)) THEN "high" ELSE "medium"

FeAdvice(severity) ==
  IF severity = "high" THEN "IMMEDIATE SUPPORT"
  ELSE IF severity = "medium" THEN "STRESS MANAGEMENT"
  ELSE "MAINTAIN BALANCE"

FeMusic(severity) ==
  IF severity = "high" THEN "Weightless - Marconi Union"
  ELSE IF severity = "medium" THEN "Clair de Lune - Debussy"
  ELSE "Here Comes The Sun - The Beatles"

FeInsight(severity) ==
  IF severity = "high"
  THEN "Significant emotional distress detected. Professional support recommended."
  ELSE IF severity = "medium"
  THEN "Notable stress levels. Implementing coping strategies is beneficial."
  ELSE "Manageable stress levels. Keep up the good work!"

\* analyze_mood(user_id, mood_text, severity) of mindmate_frontend.py, called
\* while the session holds the list session_entries, the clock reading now
fe_analyze_mood(user_id, mood_text, severity, session_entries, now) ==
  LET trigger_scores == FeTriggerScores(mood_text)
      sev == FeDetectSeverity(severity, mood_text)
  IN  [ success |-> TRUE,
        record_id |-> <<"entry", Len(session_entries) + 1>>,
        user_id |-> user_id,
        primary_trigger |-> FePrimaryTrigger(trigger_scores),
        trigger_scores |-> trigger_scores,
        severity |-> sev,
        advice |-> FeAdvice(sev),
        music_track |-> FeMusic(sev),
        deep_insight |-> FeInsight(sev),
        timestamp |-> now ]

(***************************************************************************)
(* Inputs                                                                  *)
(***************************************************************************)
\* pieces of mood text; a text is a concatenation of at most MaxFrags pieces
Fragments ==
  << <<"E","x","a","m"," ","h","o","m","e","w","o","r","k"," ">>,
     <<"h","o","m","e","w","o","r","k"," ">>,
     <<"j","o","b"," ","b","o","s","s"," ">>,
     <<"e","l","e","c","t","i","o","n"," ","j","o","b"," ">>,
     <<"s","t","r","e","s","s","e","d"," ">>,
     <<"h","o","p","e","l","e","s","s"," ">>,
     <<"c","a","n","'","t"," ","t","a","k","e"," ">>,
     <<"f","i","n","e"," ">>,
     <<" ">>,
     <<"m","o","n","e","y"," ","d","e","b","t">>,
     <<"S","t","r","e","s","s","e","d"," ","a","n","d"," ","h","o","p","e","l","e","s","s"," ">>,
     <<"e","l","e","c","t","i","o","n"," ">> >>

RECURSIVE Join(_)
Join(fs) == IF fs = <<>> THEN <<>> ELSE Fragments[Head(fs)] \o Join(Tail(fs))

Texts ==
  UNION { { Join(fs) : fs \in [1..n -> 1..Len(Fragments)] } : n \in 0..MaxFrags }

\* options of the "Severity Level" selectbox
SeverityChoices == {"Auto-detect", "Low", "Medium", "High"}

\* sev = None if severity == "Auto-detect" else severity.lower()
SevParam(choice) ==
  IF choice = "Auto-detect" THEN None
  ELSE ("Low" :> "low" @@ "Medium" :> "medium" @@ "High" :> "high")[choice]

(***************************************************************************)
(* State                                                                   *)
(***************************************************************************)
VARIABLES
  hashseed,      \* hash secret of the running Python process
  file,          \* mindmate_data.json: [valid, entries]
  entries,       \* st.session_state.entries of mindmate_front.py
  current_user,  \* st.session_state.current_user, NoUser when logged out
  message,       \* the messages the last handler of the application showed
  pressed,       \* the button whose click started the last script run
  background,    \* a second browser session of mindmate_front.py: whether
                 \* it is open, and its st.session_state
  fe_entries,    \* st.session_state.entries of mindmate_frontend.py
  args,          \* a direct call of a classifier: function, arguments, UI choice
  ret            \* what that call returned, NoneResult before it is made

vars == <<hashseed, file, entries, current_user, message, pressed,
          background, fe_entries, args, ret>>

appVars == <<file, entries, current_user, message, pressed, background>>
callVars == <<args, ret>>

\* a button widget, its key and the text of the text area it submits; only
\* the delete buttons are keyed, only "Analyze Mood" reads the text area
Button(name) == [button |-> name, key |-> <<>>, input |-> <<>>]
NoButton == Button("none")

\* the second browser session before it is opened
NoSession == [open |-> FALSE, entries |-> <<>>, current_user |-> NoUser]

NoArgs ==
  [fn |-> "none", user_id |-> NoUser, mood_text |-> <<>>,
   choice |-> "Auto-detect", severity |-> None]

(***************************************************************************)
(* The classifiers called directly, on every input of the bounded sets     *)
(***************************************************************************)
InitClassify ==
  /\ hashseed \in Seeds
  /\ file = [valid |-> TRUE, entries |-> <<>>]
  /\ entries = <<>>
  /\ current_user = NoUser
  /\ message = {}
  /\ pressed = NoButton
  /\ fe_entries = <<>>
  /\ background = NoSession
  /\ \E fn \in {"mock", "frontend"}, u \in Users, t \in Texts,
        c \in SeverityChoices :
       args = [fn |-> fn, user_id |-> u, mood_text |-> t, choice |-> c,
               severity |-> SevParam(c)]
  /\ ret = NoneResult

CallMock ==
  /\ args.fn = "mock"
  /\ ret = NoneResult
  /\ \E now \in Clock :
       ret' = mock_analyze_mood(args.user_id, args.mood_text, args.severity,
                                hashseed, now)
  /\ UNCHANGED <<hashseed, appVars, fe_entries, args>>

CallFrontend ==
  /\ args.fn = "frontend"
  /\ ret = NoneResult
  /\ \E now \in Clock :
       ret' = fe_analyze_mood(args.user_id, args.mood_text, args.severity,
                             fe_entries, now)
  /\ UNCHANGED <<hashseed, appVars, fe_entries, args>>

NextClassify == CallMock \/ CallFrontend

SpecClassify == InitClassify /\ [][NextClassify]_vars

\* the worked example of the classifier and two texts next to it: one
\* without a category keyword, one without a severity keyword
ExampleText ==
  <<"I"," ","a","m"," ","s","t","r","e","s","s","e","d"," ","a","b","o","u","t"," ","m","y"," ","e","x","a","m"," ","t","o","m","o","r","r","o","w">>

ExampleTexts ==
  { ExampleText,
    <<"I"," ","a","m"," ","s","t","r","e","s","s","e","d"," ","a","b","o","u","t"," ","t","o","m","o","r","r","o","w">>,
    <<"I"," ","a","m"," ","f","i","n","e"," ","a","b","o","u","t"," ","m","y"," ","e","x","a","m"," ","t","o","m","o","r","r","o","w">> }

InitExample ==
  /\ hashseed \in Seeds
  /\ file = [valid |-> TRUE, entries |-> <<>>]
  /\ entries = <<>>
  /\ current_user = NoUser
  /\ message = {}
  /\ pressed = NoButton
  /\ fe_entries = <<>>
  /\ background = NoSession
  /\ \E fn \in {"mock", "frontend"}, u \in Users, t \in ExampleTexts,
        c \in SeverityChoices :
       args = [fn |-> fn, user_id |-> u, mood_text |-> t, choice |-> c,
               severity |-> SevParam(c)]
  /\ ret = NoneResult

SpecExample == InitExample /\ [][NextClassify]_vars

\* The insight of mock_analyze_mood built for every primary trigger and
\* severity the classifier returns.
InitInsight ==
  /\ hashseed \in Seeds
  /\ file = [valid |-> TRUE, entries |-> <<>>]
  /\ entries = <<>>
  /\ current_user = NoUser
  /\ message = {}
  /\ pressed = NoButton
  /\ fe_entries = <<>>
  /\ background = NoSession
  /\ \E t \in Categories \cup {"other"}, s \in Severities :
       args = [fn |-> "insight", primary_trigger |-> t, severity |-> s]
  /\ ret = NoneResult

BuildInsight ==
  /\ args.fn = "insight"
  /\ ret = NoneResult
  /\ ret' = [deep_insight |->
               StrJoin(" ", InsightParts(args.primary_trigger, args.severity))]
  /\ UNCHANGED <<hashseed, appVars, fe_entries, args>>

NextInsight == BuildInsight

SpecInsight == InitInsight /\ [][NextInsight]_vars

(***************************************************************************)
(* mindmate_front.py: persistence                                          *)
(***************************************************************************)
\* load_data() that does not find the file and starts every session empty
load_dataNoFile(f) == <<>>

\* load_data(): the array in the file; [] when it is missing or unreadable
load_data(f) == IF f.valid THEN f.entries ELSE <<>>

LoadMessages(f) == IF f.valid THEN {} ELSE {"Error loading data"}

\* how a save_data call can end: written; open() raised and the file is as
\* before; open() truncated the file and json.dump raised part-way
SaveOutcomes == {"ok", "open_failed", "write_failed"}

\* save_data that opens the file to append and adds the list to what the
\* file holds
save_dataAppended(f, es, outcome) ==
  IF outcome = "ok" THEN [valid |-> f.valid, entries |-> f.entries \o es]
  ELSE IF outcome = "open_failed" THEN f
  ELSE [valid |-> FALSE, entries |-> <<>>]

\* save_data with a second attempt that goes through whenever the first
\* one failed
save_dataRetried(f, es, outcome) == [valid |-> TRUE, entries |-> es]

\* the file after save_data(es)
save_data(f, es, outcome) ==
  IF outcome = "ok" THEN [valid |-> TRUE, entries |-> es]
  ELSE IF outcome = "open_failed" THEN f
  ELSE [valid |-> FALSE, entries |-> <<>>]

SaveMessages(outcome) == IF outcome = "ok" THEN {} ELSE {"Error saving data"}

(***************************************************************************)
(* mindmate_front.py: analyze_mood, the remote service with local fallback *)
(***************************************************************************)
\* mood texts typed in the application runs: empty, blank, too short, and
\* one that passes the length test
AppTexts == { <<>>, Fragments[9], Fragments[8], Fragments[1] }

\* choices of the "Severity Level" selectbox made in the application runs
AppChoices == {"Auto-detect"}

\* user_id.replace('"', '\\"')
RECURSIVE SanitizeUser(_)
SanitizeUser(u) ==
  IF u = <<>> THEN <<>>
  ELSE (IF Head(u) = "\"" THEN <<"\\", "\"">> ELSE <<Head(u)>>)
       \o SanitizeUser(Tail(u))

\* how the POST to /api/analyze can end.  The service is outside the
\* repository, so a 200 answer carries whatever JSON object it chooses:
\*   entry                  a record with "success" and valid field values
\*   entry_without_success  the MoodEntry fields only
\*   entry_off_schema       "success", with values outside the data model
\*   entry_of_other_user    a valid record whose user_id is not the one sent
\* A 200 answer that is not JSON makes response.json() raise: a
\* RequestException in recent versions of requests, a ValueError before.
RemoteKinds ==
  { "network_error", "non_200",
    "not_json_request_exception", "not_json_value_error",
    "entry", "entry_without_success", "entry_off_schema",
    "entry_of_other_user" }

\* the ways the POST can end with a service that, when it sends a record,
\* sends it with the user_id of the request
EchoingKinds == RemoteKinds \ {"entry_of_other_user"}

\* response.json() of a 200 answer of the given kind to the payload
RemoteBody(kind, payload) ==
  LET sev == IF payload.severity = None THEN "medium" ELSE payload.severity
      fields ==
        [ record_id |-> <<"jac", payload.user_id, 1>>,
          user_id |-> payload.user_id,
          mood |-> payload.mood,
          primary_trigger |-> "other",
          trigger_scores |-> [t \in Categories |-> 0],
          severity |-> sev,
          advice |-> Advice(sev),
          music_track |-> music_options(sev)[1],
          deep_insight |-> StrJoin(" ", InsightParts("other", sev)),
          timestamp |-> 1 ]
  IN  IF kind = "entry" THEN [success |-> TRUE] @@ fields
      ELSE IF kind = "entry_without_success" THEN fields
      ELSE IF kind = "entry_of_other_user"
      THEN [ success |-> TRUE,
             user_id |-> CHOOSE u \in Users : u # payload.user_id ] @@ fields
      ELSE [ success |-> TRUE,
             severity |-> "critical",
             primary_trigger |-> "spiritual",
             trigger_scores |-> [t \in {"spiritual"} |-> 1] ] @@ fields

\* analyze_mood with the fallback left out: a POST that fails, or is answered
\* with another status than 200, ends the analysis with an error
analyze_moodNoFallback(user_id, mood_text, severity, remote, seed, now) ==
  LET payload == [ user_id |-> SanitizeUser(user_id), mood |-> mood_text,
                   severity |-> severity ]
      failed == [ result |-> NoneResult, messages |-> {"Error analyzing mood"},
                  posts |-> 1 ]
  IN  IF remote \in {"entry", "entry_without_success", "entry_off_schema",
                     "entry_of_other_user"}
      THEN [ result |-> RemoteBody(remote, payload), messages |-> {},
             posts |-> 1 ]
      ELSE failed

\* analyze_mood(user_id, mood_text, severity): what it returns, the messages
\* it shows and the number of requests.post calls it makes, given how the
\* POST ends
analyze_mood(user_id, mood_text, severity, remote, seed, now) ==
  LET payload == [ user_id |-> SanitizeUser(user_id), mood |-> mood_text,
                   severity |-> severity ]
      local == mock_analyze_mood(user_id, mood_text, severity, seed, now)
      failed == [ result |-> NoneResult, messages |-> {"Error analyzing mood"},
                  posts |-> 1 ]
  IN  IF remote \in {"entry", "entry_without_success", "entry_off_schema",
                     "entry_of_other_user"}
      THEN [ result |-> RemoteBody(remote, payload), messages |-> {},
             posts |-> 1 ]
      ELSE IF remote = "not_json_value_error" THEN failed
      ELSE IF local = Raised THEN failed
      ELSE [ result |-> local, messages |-> {}, posts |-> 1 ]

\* analyze_mood tabulated on the arguments the application runs pass it,
\* so that a run looks a call up instead of repeating it (the @@ makes TLC
\* enumerate the table once instead of keeping it as a lambda)
AnalyzeResults ==
  [ c \in Users \X { t \in AppTexts : Strip(t) # <<>> /\ Len(t) >= 10 }
             \X { SevParam(ch) : ch \in AppChoices }
             \X RemoteKinds \X Seeds \X Clock |->
      analyze_mood(c[1], c[2], c[3], c[4], c[5], c[6]) ] @@ <<>>

\* analyze_mood called directly, the POST ending in each of the ways a
\* request can end
RemoteTexts ==
  { Fragments[1], Fragments[5], Fragments[6], Fragments[8], Fragments[9] }

InitRemote ==
  /\ hashseed \in Seeds
  /\ file = [valid |-> TRUE, entries |-> <<>>]
  /\ entries = <<>>
  /\ current_user = NoUser
  /\ message = {}
  /\ pressed = NoButton
  /\ fe_entries = <<>>
  /\ background = NoSession
  /\ \E u \in Users, t \in RemoteTexts, c \in SeverityChoices,
        r \in RemoteKinds :
       args = [fn |-> "analyze", user_id |-> u, mood_text |-> t, choice |-> c,
               severity |-> SevParam(c), remote |-> r]
  /\ ret = NoneResult

CallAnalyze ==
  /\ args.fn = "analyze"
  /\ ret = NoneResult
  /\ \E now \in Clock :
       ret' = analyze_mood(args.user_id, args.mood_text, args.severity,
                           args.remote, hashseed, now)
  /\ UNCHANGED <<hashseed, appVars, fe_entries, args>>

NextRemote == CallAnalyze

SpecRemote == InitRemote /\ [][NextRemote]_vars

(***************************************************************************)
(* mindmate_front.py: the handlers                                         *)
(***************************************************************************)
\* what can be typed into the Username box
TypedNames == Users \cup { <<>>, <<" ">>, <<" ","a","n","n"," ">> }

\* the note typed when "Add private note" is ticked
PrivateNote == <<"n">>

\* entries.remove(e) written as a filter: drops every element equal to e
RemoveFirstAllEqual(es, e) ==
  LET Keep(x) == x # e IN SelectSeq(es, Keep)

\* list.remove(e): drop the first element equal to e
RemoveFirst(es, e) ==
  LET i == CHOOSE k \in 1..Len(es) :
             es[k] = e /\ \A j \in 1..(k - 1) : es[j] # e
  IN  SubSeq(es, 1, i - 1) \o SubSeq(es, i + 1, Len(es))

\* the filter with the comparison turned round: keeps the user's own entries
OthersEntriesKeepOwn(es, user) ==
  LET Keep(e) == e.user_id = user IN SelectSeq(es, Keep)

\* [e for e in entries if e['user_id'] != user]
OthersEntries(es, user) ==
  LET Keep(e) == e.user_id # user IN SelectSeq(es, Keep)

\* the Login button
Login ==
  /\ \E username \in TypedNames :
       /\ Strip(username) # <<>>
       /\ current_user' = Strip(username)
  /\ message' = {}
  /\ pressed' = Button("login")
  /\ UNCHANGED <<hashseed, file, entries, fe_entries, background, callVars>>

\* the Logout button
Logout ==
  /\ current_user # NoUser
  /\ current_user' = NoUser
  /\ message' = {}
  /\ pressed' = Button("logout")
  /\ UNCHANGED <<hashseed, file, entries, fe_entries, background, callVars>>

\* the "Clear My Data" button, save_data ending in one of the ways of saves
ClearMyDataOn(saves) ==
  /\ current_user # NoUser
  /\ entries' = OthersEntries(entries, current_user)
  /\ pressed' = Button("clear_data")
  /\ \E outcome \in saves :
       /\ file' = save_data(file, entries', outcome)
       /\ message' = SaveMessages(outcome)
  /\ UNCHANGED <<hashseed, current_user, fe_entries, background, callVars>>

\* the "Analyze Mood" button, the POST ending in one of the ways of remotes
\* and save_data in one of the ways of saves, datetime.now() reading one of
\* nows, the private note box ticked as one of notes says
AnalyzeMoodAt(remotes, saves, nows, notes) ==
  /\ current_user # NoUser
  /\ \E mood_text \in AppTexts :
     /\ pressed' = [button |-> "analyze", key |-> <<>>, input |-> mood_text]
     /\
       \/ /\ Strip(mood_text) = <<>>
          /\ message' = {"Please describe your mood before analyzing."}
          /\ UNCHANGED <<entries, file>>
       \/ /\ Strip(mood_text) # <<>>
          /\ Len(mood_text) < 10
          /\ message' = {"Please provide more detail (at least 10 characters)"}
          /\ UNCHANGED <<entries, file>>
       \/ /\ Strip(mood_text) # <<>>
          /\ Len(mood_text) >= 10
          /\ Len(entries) < MaxEntries
          /\ \E choice \in AppChoices, remote \in remotes, now \in nows,
                add_note \in notes, outcome \in saves :
               LET a == AnalyzeResults[<<current_user, mood_text,
                                         SevParam(choice), remote, hashseed, now>>]
                   result == IF add_note
                             THEN [private_note |-> PrivateNote] @@ a.result
                             ELSE a.result
               IN  IF /\ IsDict(a.result)
                      /\ "success" \in DOMAIN a.result
                      /\ a.result.success = TRUE
                   THEN /\ entries' = Append(entries, result)
                        /\ file' = save_data(file, entries', outcome)
                        /\ message' = a.messages \cup SaveMessages(outcome)
                                        \cup {"Analysis complete!"}
                   ELSE /\ message' = a.messages \cup {"Analysis failed."}
                        /\ UNCHANGED <<entries, file>>
  /\ UNCHANGED <<hashseed, current_user, fe_entries, background, callVars>>

\* the "Analyze Mood" button at any time of the clock, with or without a note
AnalyzeMoodVia(remotes, saves) == AnalyzeMoodAt(remotes, saves, Clock, BOOLEAN)

\* the "Delete Entry" button of one of the user's entries in the History tab
DeleteEntryOn(saves) ==
  /\ current_user # NoUser
  /\ \E i \in 1..Len(entries) :
       /\ entries[i].user_id = current_user
       /\ entries' = RemoveFirst(entries, entries[i])
       /\ pressed' = [button |-> "delete", key |-> entries[i].record_id,
                       input |-> <<>>]
  /\ \E outcome \in saves :
       /\ file' = save_data(file, entries', outcome)
       /\ message' = SaveMessages(outcome)
  /\ UNCHANGED <<hashseed, current_user, fe_entries, background, callVars>>

\* a new browser session of the running process: session state is built anew
NewSession ==
  /\ entries' = load_data(file)
  /\ current_user' = NoUser
  /\ message' = LoadMessages(file)
  /\ pressed' = NoButton
  /\ UNCHANGED <<hashseed, file, fe_entries, background, callVars>>

\* the process is started again: a new hash secret, then a first session
RestartProcess ==
  /\ hashseed' \in Seeds
  /\ entries' = load_data(file)
  /\ current_user' = NoUser
  /\ message' = LoadMessages(file)
  /\ pressed' = NoButton
  /\ background' = NoSession
  /\ UNCHANGED <<file, fe_entries, callVars>>

Init ==
  /\ hashseed \in Seeds
  /\ file = [valid |-> TRUE, entries |-> <<>>]
  /\ entries = load_data(file)
  /\ current_user = NoUser
  /\ message = {}
  /\ pressed = NoButton
  /\ fe_entries = <<>>
  /\ background = NoSession
  /\ args = NoArgs
  /\ ret = NoneResult

\* One run of the process on a disk that takes every write, the remote
\* service answering with records of the user_id it was sent, failing or
\* absent.
AnalyzeMood == AnalyzeMoodVia(EchoingKinds, {"ok"})
DeleteEntry == DeleteEntryOn({"ok"})
ClearMyData == ClearMyDataOn({"ok"})

Next ==
  \/ Login
  \/ Logout
  \/ AnalyzeMood
  \/ DeleteEntry
  \/ ClearMyData
  \/ NewSession

Spec == Init /\ [][Next]_vars

\* Successive runs of the process while nothing listens on localhost:8000,
\* as when the dashboard is run on its own: every POST ends in a connection
\* error.
AnalyzeMoodOffline == AnalyzeMoodVia({"network_error"}, {"ok"})

NextOffline ==
  \/ Login
  \/ Logout
  \/ AnalyzeMoodOffline
  \/ DeleteEntry
  \/ ClearMyData
  \/ NewSession
  \/ RestartProcess

SpecOffline == Init /\ [][NextOffline]_vars

(***************************************************************************)
(* Properties of the classifiers                                           *)
(***************************************************************************)
\* the call of args has returned a dict
Returned(fn) == args.fn = fn /\ IsDict(ret)
\* the call of args has been made, whatever came of it
Called(fn) == args.fn = fn /\ ret # NoneResult

NineCategories ==
  { "political", "work", "health", "relationship", "financial",
    "academic", "family", "social", "environmental" }

SeqToSet(q) == { q[i] : i \in 1..Len(q) }

\* C1: mock_analyze_mood returns trigger_scores whose keys are exactly the
\* nine categories, each score being the number of distinct keywords of the
\* category that are substrings of the lower-cased text.
C1_ScoresCountKeywords ==
  Called("mock") =>
    /\ IsDict(ret)
    /\ DOMAIN ret.trigger_scores = NineCategories
    /\ \A t \in NineCategories :
         ret.trigger_scores[t] =
           Cardinality({ kw \in SeqToSet(trigger_keywords[t]) :
                           IsIn(kw, Lower(args.mood_text)) })

\* a text typed with a capital scores two academic keywords
C1_Witness ==
  /\ Returned("mock")
  /\ args.mood_text # Lower(args.mood_text)
  /\ ret.trigger_scores["academic"] = 2

\* the enumeration order the claim fixes for each program
C2_Order(fn) ==
  IF fn = "mock"
  THEN << "political", "work", "health", "relationship", "financial",
          "academic", "family", "social", "environmental" >>
  ELSE << "political", "social", "environmental", "work", "relationship",
          "health", "financial" >>

\* C2: when some score is non-zero, primary_trigger is a category of maximal
\* score, and among the categories of maximal score the first of the
\* program's enumeration order.
C2_PrimaryIsFirstMax ==
  \A fn \in {"mock", "frontend"} :
    (Returned(fn) /\ \E t \in DOMAIN ret.trigger_scores : ret.trigger_scores[t] # 0)
    => LET sc == ret.trigger_scores
           p == ret.primary_trigger
           ord == C2_Order(fn)
       IN  /\ p \in DOMAIN sc
           /\ \A t \in DOMAIN sc : sc[t] <= sc[p]
           /\ \E i \in 1..Len(ord) :
                /\ ord[i] = p
                /\ \A j \in 1..(i - 1) : ord[j] \in DOMAIN sc => sc[ord[j]] < sc[p]

\* work and academic tie at the maximum and work, the earlier one, is chosen
C2_Witness ==
  /\ Returned("mock")
  /\ ret.trigger_scores["work"] = 1
  /\ ret.trigger_scores["academic"] = 1
  /\ \A t \in DOMAIN ret.trigger_scores : ret.trigger_scores[t] <= 1
  /\ ret.primary_trigger = "work"

\* the keywords configured in each program
C3_Keywords(fn) ==
  IF fn = "mock"
  THEN UNION { SeqToSet(trigger_keywords[t]) : t \in DOMAIN trigger_keywords }
  ELSE UNION { SeqToSet(fe_rules[i].words) : i \in 1..Len(fe_rules) }

C3_NoKeyword(fn, text) == \A kw \in C3_Keywords(fn) : ~IsIn(kw, Lower(text))

\* C3: a text that contains none of the category keywords is analysed as
\* primary_trigger "other" with every score 0.
C3_NoKeywordIsOther ==
  \A fn \in {"mock", "frontend"} :
    (Called(fn) /\ C3_NoKeyword(fn, args.mood_text))
    => /\ IsDict(ret)
       /\ ret.primary_trigger = "other"
       /\ \A t \in DOMAIN ret.trigger_scores : ret.trigger_scores[t] = 0

\* a whitespace-only text has been analysed by mock_analyze_mood
C3_Witness ==
  /\ Returned("mock")
  /\ args.mood_text # <<>>
  /\ Strip(args.mood_text) = <<>>
  /\ ret.primary_trigger = "other"

C4_HighWords ==
  { <<"c","r","i","s","i","s">>, <<"h","o","p","e","l","e","s","s">>,
    <<"u","n","b","e","a","r","a","b","l","e">>, <<"s","u","i","c","i","d","e">>,
    <<"k","i","l","l">>, <<"c","a","n","'","t"," ","t","a","k","e">>,
    <<"o","v","e","r","w","h","e","l","m","i","n","g">> }

C4_MediumWords ==
  { <<"s","t","r","e","s","s","e","d">>, <<"a","n","x","i","o","u","s">>,
    <<"w","o","r","r","i","e","d">>, <<"u","p","s","e","t">>,
    <<"s","t","r","u","g","g","l","i","n","g">>,
    <<"d","i","f","f","i","c","u","l","t">> }

C4_HasHigh(text) == \E w \in C4_HighWords : IsIn(w, Lower(text))
C4_HasMedium(text) == \E w \in C4_MediumWords : IsIn(w, Lower(text))

\* C4: with no explicit severity, a text with a high-severity keyword gets
\* severity "high", also when it has medium-severity keywords.
C4_HighPrecedence ==
  (Called("mock") /\ args.severity = None /\ C4_HasHigh(args.mood_text))
  => IsDict(ret) /\ ret.severity = "high"

\* a text with both a high and a medium keyword was auto-detected
C4_Witness ==
  /\ Returned("mock")
  /\ args.severity = None
  /\ C4_HasHigh(args.mood_text)
  /\ C4_HasMedium(args.mood_text)
  /\ ret.severity = "high"

\* C5: with no explicit severity and no high-severity keyword, severity is
\* "medium" when the text has a medium-severity keyword and "low" otherwise;
\* auto-detection yields one of low, medium, high.
C5_MediumElseLow ==
  (Called("mock") /\ args.severity = None)
  => /\ IsDict(ret)
     /\ ret.severity \in {"low", "medium", "high"}
     /\ ~C4_HasHigh(args.mood_text)
        => ret.severity = (IF C4_HasMedium(args.mood_text) THEN "medium" ELSE "low")

\* a text with a category keyword but no severity keyword was rated low
C5_Witness ==
  /\ Returned("mock")
  /\ args.severity = None
  /\ ~C4_HasHigh(args.mood_text)
  /\ ~C4_HasMedium(args.mood_text)
  /\ ret.primary_trigger # "other"
  /\ ret.severity = "low"

\* C6: an explicit severity of low, medium or high is the severity of the
\* record, whatever keywords the text has; the UI passes Low/Medium/High as
\* that value and Auto-detect as no value.
C6_ExplicitSeverityWins ==
  \A fn \in {"mock", "frontend"} :
    Called(fn) =>
      /\ args.choice = "Auto-detect" => args.severity = None
      /\ args.choice = "Low" => IsDict(ret) /\ ret.severity = "low"
      /\ args.choice = "Medium" => IsDict(ret) /\ ret.severity = "medium"
      /\ args.choice = "High" => IsDict(ret) /\ ret.severity = "high"

\* the choice Low was kept for a text with a high-severity keyword
C6_Witness ==
  /\ Returned("mock")
  /\ args.choice = "Low"
  /\ C4_HasHigh(args.mood_text)
  /\ ret.severity = "low"

C8_StoredEntriesWellFormed ==
  \A i \in 1..Len(entries) :
    /\ entries[i].severity \in {"low", "medium", "high"}
    /\ entries[i].primary_trigger \in NineCategories \cup {"other"}
    /\ DOMAIN entries[i].trigger_scores \subseteq NineCategories

\* C9: no two entries in the store have the same record_id.
C9_RecordIdsUnique ==
  \A i, j \in 1..Len(entries) :
    i # j => entries[i].record_id # entries[j].record_id

\* C10: two analyses of the same mood text with the same severity carry the
\* same music_track, also when they were made in different runs.
C10_SameTextSameMusic ==
  \A i, j \in 1..Len(entries) :
    (entries[i].mood = entries[j].mood /\ entries[i].severity = entries[j].severity)
    => entries[i].music_track = entries[j].music_track

\* One run of the process with a service that answers as it chooses, the
\* user_id of a record included, or fails; the disk takes every write, the
\* analyses are made without a private note and within two ticks of the
\* clock.
AnalyzeMoodService == AnalyzeMoodAt(RemoteKinds, {"ok"}, {1, 2}, {FALSE})

NextService ==
  \/ Login
  \/ Logout
  \/ AnalyzeMoodService
  \/ DeleteEntry
  \/ ClearMyData
  \/ NewSession

SpecService == Init /\ [][NextService]_vars

\* the user turns to the other browser window: the session that was in
\* front goes on in the background; the other one comes to the front, with
\* the session state it had, or is opened now and loads the file
SwitchSession ==
  /\ background' = [open |-> TRUE, entries |-> entries,
                    current_user |-> current_user]
  /\ IF background.open
     THEN /\ entries' = background.entries
          /\ current_user' = background.current_user
          /\ message' = {}
     ELSE /\ entries' = load_data(file)
          /\ current_user' = NoUser
          /\ message' = LoadMessages(file)
  /\ pressed' = NoButton
  /\ UNCHANGED <<hashseed, file, fe_entries, callVars>>

\* Two browser sessions of one process on one data file, on a disk that
\* takes every write, while nothing listens on localhost:8000; the analyses
\* are made without a private note and within two ticks of the clock.
AnalyzeMoodShared == AnalyzeMoodAt({"network_error"}, {"ok"}, {1, 2}, {FALSE})

NextSessions ==
  \/ Login
  \/ Logout
  \/ AnalyzeMoodShared
  \/ DeleteEntry
  \/ ClearMyData
  \/ NewSession
  \/ SwitchSession

SpecSessions == Init /\ [][NextSessions]_vars

\* One run of the process with a service that answers every request with
\* status 200 and a JSON record of the MoodEntry fields, with or without a
\* "success" member next to them; the disk takes every write.
AnalyzeMoodAnswered ==
  AnalyzeMoodAt({"entry", "entry_without_success"}, {"ok"}, Clock, BOOLEAN)

NextAnswered ==
  \/ Login
  \/ Logout
  \/ AnalyzeMoodAnswered
  \/ DeleteEntry
  \/ ClearMyData
  \/ NewSession

SpecAnswered == Init /\ [][NextAnswered]_vars

\* One run of the process on a disk that can refuse a write, while nothing
\* listens on localhost:8000; the analyses are made without a private note
\* and within two ticks of the clock.
AnalyzeMoodDisk == AnalyzeMoodAt({"network_error"}, SaveOutcomes, {1, 2}, {FALSE})
DeleteEntryDisk == DeleteEntryOn(SaveOutcomes)
ClearMyDataDisk == ClearMyDataOn(SaveOutcomes)

NextDisk ==
  \/ Login
  \/ Logout
  \/ AnalyzeMoodDisk
  \/ DeleteEntryDisk
  \/ ClearMyDataDisk
  \/ NewSession

SpecDisk == Init /\ [][NextDisk]_vars

(***************************************************************************)
(* mindmate_frontend.py: the handlers                                      *)
(***************************************************************************)
\* the "Analyze Mood" button of the login-free dashboard
FeAnalyzeMood ==
  /\ \E user_id \in Users, mood_text \in AppTexts :
     /\ pressed' = [button |-> "analyze", key |-> <<>>, input |-> mood_text]
     /\
       \/ /\ Strip(mood_text) # <<>>
          /\ Len(fe_entries) < MaxEntries
          /\ \E choice \in AppChoices, now \in Clock :
               LET result == fe_analyze_mood(user_id, mood_text,
                                             SevParam(choice), fe_entries, now)
               IN  IF result.success
                   THEN /\ fe_entries' = Append(fe_entries, result)
                        /\ message' = {"Analysis complete!"}
                   ELSE /\ message' = {}
                        /\ UNCHANGED fe_entries
       \/ /\ Strip(mood_text) = <<>>
          /\ message' = {"Please describe your mood before analyzing."}
          /\ UNCHANGED fe_entries
  /\ UNCHANGED <<hashseed, file, entries, current_user, background, callVars>>

\* the "Clear All Data" button
FeClearAllData ==
  /\ fe_entries' = <<>>
  /\ message' = {}
  /\ pressed' = Button("clear_all")
  /\ UNCHANGED <<hashseed, file, entries, current_user, background, callVars>>

\* a new browser session: session state is built anew
FeNewSession ==
  /\ fe_entries' = <<>>
  /\ message' = {}
  /\ pressed' = NoButton
  /\ UNCHANGED <<hashseed, file, entries, current_user, background, callVars>>

NextFrontend ==
  \/ FeAnalyzeMood
  \/ FeClearAllData
  \/ FeNewSession

\* One run of the login-free dashboard.
SpecFrontend == Init /\ [][NextFrontend]_vars

(***************************************************************************)
(* The store under the handlers of mindmate_front.py                       *)
(***************************************************************************)
\* es without its i-th element
RemoveAt(es, i) == SubSeq(es, 1, i - 1) \o SubSeq(es, i + 1, Len(es))

RECURSIVE EntriesOfOthers(_, _)
EntriesOfOthers(es, u) ==
  IF es = <<>> THEN <<>>
  ELSE IF Head(es).user_id = u THEN EntriesOfOthers(Tail(es), u)
       ELSE <<Head(es)>> \o EntriesOfOthers(Tail(es), u)

\* what "Clear My Data" leaves in memory: no entry of the logged-in user,
\* and the entries of everybody else as they were, in their order
ClearedInMemory ==
  /\ \A i \in 1..Len(entries') : entries'[i].user_id # current_user
  /\ entries' = EntriesOfOthers(entries, current_user)

AnalyzeReturned == args.fn = "analyze" /\ ret # NoneResult

\* the POST of the call ended in a network error or in a status other than 200
RemoteFailed == args.remote \in {"network_error", "non_200"}

\* C13: an analysis makes at most one POST; when that POST ends in a network
\* error or in a status other than 200, the analysis returns what the local
\* classifier returns for the same user_id, mood text and severity, makes no
\* second POST and shows no error.
C13_FailedRemoteFallsBackToLocal ==
  AnalyzeReturned =>
    /\ ret.posts <= 1
    /\ RemoteFailed =>
         /\ \E now \in Clock :
              ret.result = mock_analyze_mood(args.user_id, args.mood_text,
                                             args.severity, hashseed, now)
         /\ IsDict(ret.result)
         /\ ret.posts = 1
         /\ ret.messages = {}

\* a call whose POST was answered with a status other than 200 has returned
\* a local classification with a keyword-detected severity
C13_Witness ==
  /\ AnalyzeReturned
  /\ args.remote = "non_200"
  /\ args.severity = None
  /\ IsDict(ret.result)
  /\ ret.result.severity = "high"


(***************************************************************************)
(* Input validation                                                        *)
(***************************************************************************)
\* "Analyze Mood" has just been pressed on a text that is empty, blank or
\* shorter than 10 characters
InvalidTextSubmitted ==
  /\ pressed'.button = "analyze"
  /\ \/ Strip(pressed'.input) = <<>>
     \/ Len(pressed'.input) < 10

\* C14: pressing Analyze on a mood text that is empty, whitespace-only or
\* shorter than 10 characters shows a message and does nothing else: no
\* analysis is reported, no entry is appended, the in-memory store and the
\* saved file are as before.
C14_InvalidTextOnlyMessage ==
  [][InvalidTextSubmitted =>
       /\ message' # {}
       /\ "Analysis complete!" \notin message'
       /\ UNCHANGED <<entries, fe_entries, file>>]_vars


(***************************************************************************)
(* Saves that fail                                                         *)
(***************************************************************************)
\* the file that holds the list es
Saved(es) == [valid |-> TRUE, entries |-> es]

\* the last handler's save_data showed its error and returned False
SaveFailed == "Error saving data" \in message

\* the in-memory list has taken the change of the handler that just ran
MutationKept ==
  /\ pressed'.button = "analyze" =>
       /\ Len(entries') = Len(entries) + 1
       /\ SubSeq(entries', 1, Len(entries)) = entries
  /\ pressed'.button = "delete" =>
       \E i \in 1..Len(entries) : entries' = RemoveAt(entries, i)
  /\ pressed'.button = "clear_data" => ClearedInMemory

\* C15: when a save fails the failure is reported by the error message of
\* save_data, the in-memory store keeps the change that was being saved,
\* the change does not reach the file (neither at once nor by a second
\* attempt), and the handlers of the application can still be run.
C15_FailedSaveIsReportedNotPersisted ==
  /\ [][SaveFailed' =>
          /\ pressed'.button \in {"analyze", "delete", "clear_data"}
          /\ MutationKept
          /\ file # Saved(entries') => file' # Saved(entries')]_vars
  /\ [](SaveFailed =>
          /\ ENABLED Login
          /\ ENABLED NewSession
          /\ current_user # NoUser => ENABLED AnalyzeMoodDisk)

\* an analysis whose save failed: the new entry is in memory, the file is
\* still the empty list it was
C15_Witness ==
  /\ SaveFailed
  /\ pressed.button = "analyze"
  /\ Len(entries) = 1
  /\ file = Saved(<<>>)


(***************************************************************************)
(* Lifecycle of an entry                                                   *)
(***************************************************************************)
\* the store after the step is the store before it with one entry added at
\* the end
IsAppend ==
  /\ Len(entries') = Len(entries) + 1
  /\ SubSeq(entries', 1, Len(entries)) = entries

\* ... with one entry taken out
IsDeletion == \E i \in 1..Len(entries) : entries' = RemoveAt(entries, i)

\* ... with all entries of one user taken out
IsBulkDeletion ==
  \E i \in 1..Len(entries) :
    entries' = EntriesOfOthers(entries, entries[i].user_id)

\* C16: a stored entry keeps all of its fields, private_note included, for
\* as long as it is in the store: every step leaves the store as it is,
\* appends one new entry behind the unchanged old ones, takes one entry out
\* or takes the entries of one user out, the remaining entries unchanged.
C16_StoredEntriesImmutable ==
  [][\/ entries' = entries
     \/ IsAppend
     \/ IsDeletion
     \/ IsBulkDeletion]_vars

\* an entry with a private note is still in the store, note included, after
\* another entry was deleted
C16_Witness ==
  /\ pressed.button = "delete"
  /\ Len(entries) = 1
  /\ "private_note" \in DOMAIN entries[1]
  /\ entries[1].private_note = PrivateNote


(***************************************************************************)
(* The worked example                                                      *)
(***************************************************************************)
\* C17: the local analysis of "I am stressed about my exam tomorrow" with no
\* explicit severity returns primary_trigger "academic", severity "medium",
\* the advice of the medium tier, and an insight whose first sentence is the
\* boilerplate sentence of the medium tier.
C17_ExamExample ==
  (Returned("mock") /\ args.mood_text = ExampleText /\ args.severity = None) =>
    /\ ret.primary_trigger = "academic"
    /\ ret.severity = "medium"
    /\ ret.advice = "STRESS MANAGEMENT"
    /\ Len(ret.deep_insight) >= 1
    /\ ret.deep_insight[1] =
         "Your mood reflects notable challenges that could benefit from proactive support."

\* the example text has been analysed locally on Auto-detect
C17_Witness ==
  /\ Returned("mock")
  /\ args.mood_text = ExampleText
  /\ args.choice = "Auto-detect"
  /\ ret.trigger_scores["academic"] = 1


(***************************************************************************)
(* The insight text                                                        *)
(***************************************************************************)
\* the insight of args has been built
InsightBuilt == args.fn = "insight" /\ ret # NoneResult

\* C18, as the claim states it: deep_insight is exactly three sentences with
\* single spaces between them: the boilerplate sentence of the severity, the
\* table sentence of the trigger and severity, the closing sentence of the
\* severity.
C18_ThreeSentences ==
  InsightBuilt =>
    /\ Len(ret.deep_insight) = 5
    /\ ret.deep_insight[1] = BaseInsight(args.severity)
    /\ ret.deep_insight[2] = " "
    /\ ret.deep_insight[3] = TableSentence(args.primary_trigger, args.severity, 1)
    /\ ret.deep_insight[4] = " "
    /\ ret.deep_insight[5] = ClosingInsight(args.severity)

\* C18, amended: deep_insight is three parts with single spaces between
\* them: the boilerplate sentence of the severity, the table text of the
\* trigger and severity, which is one sentence or two sentences with a space
\* between them, and the closing sentence of the severity; the first and the
\* last part are those of the severity whatever the trigger is.
C18_ThreeParts ==
  InsightBuilt =>
    LET n == Len(ret.deep_insight)
        cell == trigger_insights[args.primary_trigger][args.severity]
    IN  /\ n \in {5, 7}
        /\ ret.deep_insight[1] = BaseInsight(args.severity)
        /\ ret.deep_insight[2] = " "
        /\ SubSeq(ret.deep_insight, 3, n - 2) = cell
        /\ ret.deep_insight[n - 1] = " "
        /\ ret.deep_insight[n] = ClosingInsight(args.severity)
        /\ cell[1] = TableSentence(args.primary_trigger, args.severity, 1)
        /\ Len(cell) = 3 =>
             /\ cell[2] = " "
             /\ cell[3] = TableSentence(args.primary_trigger, args.severity, 2)

\* the insight of academic/medium has been built: four sentences
C18_Witness ==
  /\ InsightBuilt
  /\ args.primary_trigger = "academic"
  /\ args.severity = "medium"
  /\ Len(ret.deep_insight) = 7


(***************************************************************************)
(* The file after a save                                                   *)
(***************************************************************************)
\* the handler that just ran changed the list and saved it without an error
SavedSuccessfully ==
  /\ ~SaveFailed'
  /\ \/ pressed'.button = "analyze" /\ "Analysis complete!" \in message'
     \/ pressed'.button = "delete"
     \/ pressed'.button = "clear_data"

\* C19: every save writes the whole list: after every append, deletion of
\* one entry or "Clear My Data" whose save succeeded, the file holds exactly
\* the in-memory list of the session, the entries of all users in their
\* order, whatever the file held before.
C19_FileIsWholeListAfterSave ==
  [][SavedSuccessfully => file' = Saved(entries')]_vars

\* an append has been saved: the file holds both entries of the list, which
\* are of two users
C19_Witness ==
  /\ pressed.button = "analyze"
  /\ "Analysis complete!" \in message
  /\ ~SaveFailed
  /\ Len(entries) = 2
  /\ entries[1].user_id # entries[2].user_id
  /\ file = Saved(entries)


(***************************************************************************)
(* Severity in mindmate_frontend.py                                        *)
(***************************************************************************)
\* C20: with no explicit severity, analyze_mood of mindmate_frontend.py
\* gives a text that holds none of its severity keywords the severity "low".
C20_FrontendDefaultsToLow ==
  (/\ Returned("frontend")
   /\ args.severity = None
   /\ ~AnyIn(stress_words, Lower(args.mood_text)))
  => ret.severity = "low"


(***************************************************************************)
(* Whose entry is appended                                                 *)
(***************************************************************************)
\* C21: no step appends an entry while nobody is logged in, and the entry a
\* step appends has the user_id of the logged-in user, whether it came from
\* the remote service or from the local classifier, so that it is among the
\* entries the History tab lists for that user.
C21_AppendedEntryIsOfLoggedInUser ==
  [][IsAppend =>
       /\ current_user # NoUser
       /\ entries'[Len(entries')].user_id = current_user]_vars


(***************************************************************************)
(* Two sessions on one data file                                           *)
(***************************************************************************)
\* the entry e is what the handler that just ran was asked to remove: the
\* entry of the delete button pressed, or an entry of the user who pressed
\* "Clear My Data"
RemovedByHandler(e) ==
  \/ pressed'.button = "delete" /\ e.record_id = pressed'.key
  \/ pressed'.button = "clear_data" /\ e.user_id = current_user

\* C22: with two sessions on the one data file, an entry that is in the file
\* stays in the file through every step of either session, a save of the
\* other session's list included, unless the step is a delete of that entry
\* or a "Clear My Data" of its user.
C22_SavedEntrySurvivesOtherSession ==
  [][\A i \in 1..Len(file.entries) :
       RemovedByHandler(file.entries[i])
       \/ \E j \in 1..Len(file'.entries) :
            file'.entries[j] = file.entries[i]]_vars


(***************************************************************************)
(* A 200 answer of the remote service                                      *)
(***************************************************************************)
\* "Analyze Mood" has just been pressed on a text that passes the input
\* validation
ValidTextSubmitted ==
  /\ pressed'.button = "analyze"
  /\ Strip(pressed'.input) # <<>>
  /\ Len(pressed'.input) >= 10

\* C23: when the service answers the request of an analysis with status 200
\* and a JSON record of the MoodEntry fields, the record is appended to the
\* store, the store is saved, and the user is shown the result and no
\* "Analysis failed" error.
C23_RemoteEntryAccepted ==
  [][ValidTextSubmitted =>
       /\ IsAppend
       /\ file' = Saved(entries')
       /\ "Analysis complete!" \in message'
       /\ "Analysis failed." \notin message']_vars

=============================================================================
